---- MODULE Spec2Model ----
(***************************************************************************)
(* Meter / meterArbiter of go-metrics (package metrics, meter.go).         *)
(*                                                                         *)
(* Application threads call NewMeter, Mark, Stop, RateStep, Snapshot and   *)
(* the lock-free readers; one arbiter goroutine ticks every registered     *)
(* meter each time the 5 s ticker fires.  Every access to shared memory    *)
(* that another goroutine can observe is one step of the model.            *)
(*                                                                         *)
(* float64 values are fixed-point numbers (value * RateScale) plus the     *)
(* IEEE specials Inf and NaN; time is an integer clock counting seconds.   *)
(***************************************************************************)
EXTENDS Integers, FiniteSets, Sequences, TLC

VARIABLES
    pc,             \* pc[p]: position of process p inside its current call
    loc,            \* loc[p]: the Go locals of the call p is executing
    op,             \* op[t]: <<method, receiver>> of the call thread t made last
    ncalls,         \* ncalls[t]: number of calls thread t has begun
    ret,            \* ret[t]: what the last completed call of t returned
    alloc,          \* number of StandardMeter objects built by newStandardMeter
    made,           \* meters whose NewMeter call has returned (references in use)
    stopped,        \* stopped[m]: StandardMeter.stopped
    mlock,          \* mlock[m]: holder of StandardMeter.lock, or None
    snap,           \* heap of MeterSnapshot objects: snap[m] is *m.snapshot
    ewma,           \* ewma[m][k]: the EWMAs a1, a5, a15 of meter m
    startTime,      \* startTime[m]: StandardMeter.startTime
    nsnap,          \* number of detached MeterSnapshot objects reserved
    snaps,          \* references returned by StandardMeter.Snapshot()
    arbiter,        \* the package-level meterArbiter (lock, started, meters)
    tickerC,        \* arbiter.ticker.C, a channel of capacity 1
    now,            \* the clock, in seconds
    UseNilMetrics,  \* the package-level switch read by NewMeter
    sumMarked,      \* history: sumMarked[m] = sum of all n passed to m.Mark
    fed,            \* history: fed[m][k] = sum of all n passed to a_k.Update
    stopRet,        \* history: stopRet[m] iff some m.Stop() call has returned
    deregs,         \* history: number of delete(arbiter.meters, m) executed
    ticks,          \* history: number of m.tick(nw) invocations begun
    launches,       \* history: number of `go arbiter.tick()` executed
    pass,           \* history: the members and the ticks of the running pass
    sumDelta,       \* history: sumDelta[m] = sum of the step deltas computed
    lastElapsed     \* history: elapsed seconds read by the latest mean refresh

threadVars == <<pc, loc, op, ncalls, ret>>
meterVars  == <<alloc, made, stopped, mlock, snap, ewma, startTime, nsnap, snaps>>
arbVars    == <<arbiter, tickerC>>
envVars    == <<now, UseNilMetrics>>
histVars   == <<sumMarked, fed, stopRet, deregs, ticks, launches, pass, sumDelta,
                 lastElapsed>>
vars       == <<threadVars, meterVars, arbVars, envVars, histVars>>

----------------------------------------------------------------------------
\* Bounds of the model.
MaxThreads == 2     \* application threads
MaxMeters  == 2     \* StandardMeter objects ever built
MaxCalls   == 2     \* calls each thread makes
MaxMark    == 1     \* Mark(n) is called with n in -MaxMark .. MaxMark
MaxTime    == 5     \* the clock stops here
MaxSnaps   == 2     \* detached snapshots ever built
RateScale  == 1000  \* fixed-point resolution of a float64
MaxTicks   == 3     \* the history counter of ticks saturates here

\* time.NewTicker(5e9): the arbiter's period, in seconds.
TickSeconds == 5

None    == -1
Arb     == 0
Threads == 1 .. MaxThreads
Procs   == Threads \cup {Arb}
Meters  == 1 .. MaxMeters
SnapIds == 1 .. (MaxMeters + MaxSnaps)
MarkVals == (0 - MaxMark) .. MaxMark
EWMAs   == 1 .. 3

----------------------------------------------------------------------------
\* float64 and its bit pattern.

Num(v) == [k |-> "num", v |-> v]
PosInf == [k |-> "inf", v |-> 1]
NegInf == [k |-> "inf", v |-> -1]
NaN    == [k |-> "nan", v |-> 0]

\* Go's integer-to-float division truncates nothing; the fixed-point quotient
\* rounds toward zero.
Quot(a, b) == IF a >= 0 THEN a \div b ELSE 0 - ((0 - a) \div b)

\* float64(c) / secs, IEEE 754: x/0 is +Inf or -Inf, 0/0 is NaN.
FloatDiv(c, secs) ==
    IF secs = 0
    THEN IF c = 0 THEN NaN ELSE IF c > 0 THEN PosInf ELSE NegInf
    ELSE Num(Quot(c * RateScale, secs))

\* math.Float64bits: sign and magnitude; exponent all ones for Inf and NaN.
ExpOnes == 2 * (RateScale * RateScale)
Float64bits(f) ==
    IF f.k = "num" THEN (IF f.v >= 0 THEN 2 * f.v ELSE 2 * (0 - f.v) + 1)
    ELSE IF f.k = "inf" THEN (IF f.v > 0 THEN ExpOnes ELSE ExpOnes + 1)
    ELSE ExpOnes + 2

\* math.Float64frombits
Float64frombits(b) ==
    IF b < ExpOnes THEN (IF b % 2 = 0 THEN Num(b \div 2) ELSE Num(0 - (b \div 2)))
    ELSE IF b = ExpOnes THEN PosInf
    ELSE IF b = ExpOnes + 1 THEN NegInf
    ELSE NaN

----------------------------------------------------------------------------
\* EWMA (ewma.go): uncounted, rate, init; alpha is fixed by the window.

NewEWMA == [uncounted |-> 0, rate |-> 0, init |-> FALSE]

\* alpha = 1 - exp(-5/60/M) for M = 1, 5, 15 minutes, in thousandths.
AlphaPerMille == <<80, 17, 6>>

\* EWMA.Update(n): atomic add to uncounted.
EWMA_Update(a, n) == [a EXCEPT !.uncounted = @ + n]

\* EWMA.Tick, first half: read uncounted and take it off the accumulator.
EWMA_Drain(a) == [a EXCEPT !.uncounted = 0]

\* EWMA.Tick, second half: fold the instantaneous rate of the drained count c
\* into rate (the first tick initialises rate).
EWMA_Fold(a, k, c) ==
    LET instant == Quot(c * RateScale, TickSeconds) IN
    IF a.init
    THEN [a EXCEPT !.rate = @ + Quot(AlphaPerMille[k] * (instant - @), 1000)]
    ELSE [a EXCEPT !.rate = instant, !.init = TRUE]

\* EWMA.Rate(): atomic load of rate, in events per second.
EWMA_Rate(a) == Num(a.rate)

----------------------------------------------------------------------------
\* Objects.

\* &MeterSnapshot{}: every field zero.
NewMeterSnapshot ==
    [count |-> 0, lastCount |-> 0, rate1 |-> 0, rate5 |-> 0, rate15 |-> 0,
     rateMean |-> 0, rateStep |-> 0, lastTime |-> 0]

\* Mutant of RateField: the last store of updateSnapshot goes to rateStep.
RateField_Step == <<"rate1", "rate5", "rate15", "rateStep">>

\* The published rate fields in the order updateSnapshot stores them.
RateField == <<"rate1", "rate5", "rate15", "rateMean">>

\* The fields Snapshot() copies, in the order it loads them.
CopyField == <<"count", "rate1", "rate5", "rate15", "rateMean">>

NoLoc ==
    [m |-> 0, n |-> 0, k |-> 0, r |-> <<0, 0, 0>>, mean |-> 0, nw |-> 0,
     cnt |-> 0, ref |-> 0, caller |-> "", cp |-> <<0, 0, 0, 0, 0>>, todo |-> {}]

NoRet == [k |-> "none", v |-> 0, f |-> Num(0)]
RetOk == [k |-> "ok", v |-> 0, f |-> Num(0)]
RetPanic == [k |-> "panic", v |-> 0, f |-> Num(0)]
RetInt(kind, v) == [k |-> kind, v |-> v, f |-> Num(0)]
RetFloat(f) == [k |-> "float", v |-> 0, f |-> f]

\* No tick pass is running.
NoPass == [members |-> {}, ticked |-> [m \in Meters |-> 0]]

\* var arbiter = meterArbiter{ticker: ..., meters: make(map...)}
NewArbiter == [writer |-> None, readers |-> 0, started |-> FALSE, meters |-> {}]

\* The state of the process before any meter is built, UseNilMetrics having
\* the value flag.
InitWith(flag) ==
    /\ pc = [p \in Procs |-> IF p = Arb THEN "off" ELSE "idle"]
    /\ loc = [p \in Procs |-> NoLoc]
    /\ op = [t \in Threads |-> <<"", 0>>]
    /\ ncalls = [t \in Threads |-> 0]
    /\ ret = [t \in Threads |-> NoRet]
    /\ alloc = 0
    /\ made = {}
    /\ stopped = [m \in Meters |-> 0]
    /\ mlock = [m \in Meters |-> None]
    /\ snap = [s \in SnapIds |-> NewMeterSnapshot]
    /\ ewma = [m \in Meters |-> [k \in EWMAs |-> NewEWMA]]
    /\ startTime = [m \in Meters |-> 0]
    /\ nsnap = 0
    /\ snaps = {}
    /\ arbiter = NewArbiter
    /\ tickerC = 0
    /\ now = 0
    /\ UseNilMetrics = flag
    /\ sumMarked = [m \in Meters |-> 0]
    /\ fed = [m \in Meters |-> [k \in EWMAs |-> 0]]
    /\ stopRet = [m \in Meters |-> FALSE]
    /\ deregs = [m \in Meters |-> 0]
    /\ ticks = [m \in Meters |-> 0]
    /\ launches = 0
    /\ pass = NoPass
    /\ sumDelta = [m \in Meters |-> 0]
    /\ lastElapsed = [m \in Meters |-> None]

Init == InitWith(FALSE)

----------------------------------------------------------------------------
\* Calls and returns of application threads.

Call(t, name, rcv) ==
    /\ pc[t] = "idle"
    /\ ncalls[t] < MaxCalls
    /\ op' = [op EXCEPT ![t] = <<name, rcv>>]
    /\ ncalls' = [ncalls EXCEPT ![t] = @ + 1]

Return(t, r) ==
    /\ pc' = [pc EXCEPT ![t] = "idle"]
    /\ loc' = [loc EXCEPT ![t] = NoLoc]
    /\ ret' = [ret EXCEPT ![t] = r]

Goto(p, label) == pc' = [pc EXCEPT ![p] = label]

InCall == <<op, ncalls, ret>>

----------------------------------------------------------------------------
\* NewMeter (the StandardMeter branch).

\* m := newStandardMeter(): the object is built at time.Now(); nobody else
\* holds a reference yet.
NewMeter(t) ==
    /\ Call(t, "NewMeter", 0)
    /\ ~UseNilMetrics
    /\ alloc < MaxMeters
    /\ alloc' = alloc + 1
    /\ startTime' = [startTime EXCEPT ![alloc + 1] = now]
    /\ snap' = [snap EXCEPT ![alloc + 1].lastTime = now]
    /\ Goto(t, "nm_lock")
    /\ loc' = [loc EXCEPT ![t].m = alloc + 1]
    /\ UNCHANGED <<ret, made, stopped, mlock, ewma, nsnap, snaps>>
    /\ UNCHANGED <<arbVars, envVars, histVars>>

\* arbiter.Lock()
NewMeter_Lock(t) ==
    /\ pc[t] = "nm_lock"
    /\ arbiter.writer = None /\ arbiter.readers = 0
    /\ arbiter' = [arbiter EXCEPT !.writer = t]
    /\ Goto(t, "nm_reg")
    /\ UNCHANGED <<loc, InCall, meterVars, tickerC, envVars, histVars>>

\* Mutant of ShouldLaunch: the loop is launched by every NewMeter.
ShouldLaunch_Always(started) == TRUE

\* if !arbiter.started { arbiter.started = true; go arbiter.tick() }
ShouldLaunch(started) == ~started

\* arbiter.meters[m] = struct{}{}; start the loop if !arbiter.started;
\* return m (the deferred arbiter.Unlock() runs).
NewMeter_Register(t) ==
    /\ pc[t] = "nm_reg"
    /\ arbiter' = [arbiter EXCEPT !.meters = @ \cup {loc[t].m},
                                  !.started = TRUE,
                                  !.writer = None]
    /\ pc' = [pc EXCEPT ![t] = "idle",
                        ![Arb] = IF ShouldLaunch(arbiter.started) /\ @ = "off"
                                 THEN "ar_wait" ELSE @]
    /\ launches' = IF ShouldLaunch(arbiter.started) THEN launches + 1 ELSE launches
    /\ loc' = [loc EXCEPT ![t] = NoLoc]
    /\ ret' = [ret EXCEPT ![t] = RetInt("meter", loc[t].m)]
    /\ made' = made \cup {loc[t].m}
    /\ UNCHANGED <<op, ncalls, alloc, stopped, mlock, snap, ewma, startTime,
                   nsnap, snaps, tickerC, envVars, sumMarked, fed, stopRet,
                   deregs, ticks, pass, sumDelta, lastElapsed>>

----------------------------------------------------------------------------
\* StandardMeter.updateSnapshot, run by Mark (a thread) and by tick (the arbiter).

\* rate1 := Float64bits(m.a1.Rate()), then rate5, rate15.
updateSnapshot_Rate(p) ==
    /\ pc[p] = "us_rate"
    /\ LET m == loc[p].m
           k == loc[p].k
       IN  /\ loc' = [loc EXCEPT ![p].r[k] = Float64bits(EWMA_Rate(ewma[m][k])),
                                 ![p].k = IF k < 3 THEN k + 1 ELSE 0]
           /\ Goto(p, IF k < 3 THEN "us_rate" ELSE "us_mean")
    /\ UNCHANGED <<InCall, meterVars, arbVars, envVars, histVars>>

\* rateMean := Float64bits(float64(m.Count()) / time.Since(m.startTime).Seconds())
updateSnapshot_Mean(p) ==
    /\ pc[p] = "us_mean"
    /\ LET m == loc[p].m
       IN  loc' = [loc EXCEPT
                ![p].mean = Float64bits(FloatDiv(snap[m].count, now - startTime[m])),
                ![p].k = 1]
    /\ lastElapsed' = [lastElapsed EXCEPT ![loc[p].m] = now - startTime[loc[p].m]]
    /\ Goto(p, "us_store")
    /\ UNCHANGED <<InCall, meterVars, arbVars, envVars, sumMarked, fed, stopRet,
                   deregs, ticks, launches, pass, sumDelta>>

\* atomic.StoreUint64 of rate1, rate5, rate15, rateMean, one at a time; after
\* the last store the function returns to Mark (which returns) or to tick
\* (which returns to the loop of tickMeters).
updateSnapshot_Store(p) ==
    /\ pc[p] = "us_store"
    /\ LET m == loc[p].m
           k == loc[p].k
           v == IF k < 4 THEN loc[p].r[k] ELSE loc[p].mean
       IN  /\ snap' = [snap EXCEPT ![m][RateField[k]] = v]
           /\ IF k < 4
              THEN /\ loc' = [loc EXCEPT ![p].k = k + 1]
                   /\ UNCHANGED <<pc, ret>>
              ELSE IF p = Arb
              THEN /\ loc' = [loc EXCEPT ![p] = [NoLoc EXCEPT !.todo = loc[p].todo]]
                   /\ Goto(p, "ar_next")
                   /\ UNCHANGED ret
              ELSE Return(p, RetOk)
    /\ UNCHANGED <<op, ncalls, alloc, made, stopped, mlock, ewma, startTime,
                   nsnap, snaps, arbVars, envVars, histVars>>

----------------------------------------------------------------------------
\* StandardMeter.Mark

\* Mutants of AddInt64: a store instead of an add; a subtraction.
StoreInt64(old, delta) == delta
SubInt64(old, delta) == old - delta

\* atomic.AddInt64(&addr, delta)
AddInt64(old, delta) == old + delta

\* Mutant of IsStopped: Mark does not look at the flag.
IsStopped_Unchecked(m) == FALSE

\* atomic.LoadUint32(&m.stopped) == 1
IsStopped(m) == stopped[m] = 1

\* if atomic.LoadUint32(&m.stopped) == 1 { return }
Mark(t, m, n) ==
    /\ Call(t, "Mark", m)
    /\ m \in made
    /\ sumMarked' = [sumMarked EXCEPT ![m] = @ + n]
    /\ IF IsStopped(m)
       THEN Return(t, RetOk)
       ELSE /\ Goto(t, "mk_add")
            /\ loc' = [loc EXCEPT ![t].m = m, ![t].n = n]
            /\ UNCHANGED ret
    /\ UNCHANGED <<meterVars, arbVars, envVars, fed, stopRet, deregs, ticks, launches,
                   pass, sumDelta, lastElapsed>>

\* Mutant of Mark_Add: the count is updated under m.lock, so the step waits
\* while another thread holds the mutex.
Mark_Add_Locked(t) ==
    /\ pc[t] = "mk_add"
    /\ mlock[loc[t].m] = None
    /\ snap' = [snap EXCEPT ![loc[t].m].count = AddInt64(@, loc[t].n)]
    /\ Goto(t, "mk_upd")
    /\ loc' = [loc EXCEPT ![t].k = 1]
    /\ UNCHANGED <<InCall, alloc, made, stopped, mlock, ewma, startTime, nsnap,
                   snaps, arbVars, envVars, histVars>>

\* atomic.AddInt64(&m.snapshot.count, n)
Mark_Add(t) ==
    /\ pc[t] = "mk_add"
    /\ snap' = [snap EXCEPT ![loc[t].m].count = AddInt64(@, loc[t].n)]
    /\ Goto(t, "mk_upd")
    /\ loc' = [loc EXCEPT ![t].k = 1]
    /\ UNCHANGED <<InCall, alloc, made, stopped, mlock, ewma, startTime, nsnap,
                   snaps, arbVars, envVars, histVars>>

\* Mutant of Mark_Update: the stopped flag is looked at again before each
\* EWMA is updated, and Mark returns when it is set.
Mark_Update_Recheck(t) ==
    /\ pc[t] = "mk_upd"
    /\ LET m == loc[t].m
           k == loc[t].k
       IN  IF stopped[m] = 1
           THEN /\ Return(t, RetOk)
                /\ UNCHANGED <<ewma, fed>>
           ELSE /\ ewma' = [ewma EXCEPT ![m][k] = EWMA_Update(@, loc[t].n)]
                /\ fed' = [fed EXCEPT ![m][k] = @ + loc[t].n]
                /\ loc' = [loc EXCEPT ![t].k = IF k < 3 THEN k + 1 ELSE 1,
                                      ![t].caller = IF k < 3 THEN "" ELSE "Mark"]
                /\ Goto(t, IF k < 3 THEN "mk_upd" ELSE "us_rate")
                /\ UNCHANGED ret
    /\ UNCHANGED <<op, ncalls, alloc, made, stopped, mlock, snap, startTime, nsnap,
                   snaps, arbVars, envVars, sumMarked, stopRet, deregs, ticks,
                   launches, pass, sumDelta, lastElapsed>>

\* m.a1.Update(n); m.a5.Update(n); m.a15.Update(n); then m.updateSnapshot()
Mark_Update(t) ==
    /\ pc[t] = "mk_upd"
    /\ LET m == loc[t].m
           k == loc[t].k
       IN  /\ ewma' = [ewma EXCEPT ![m][k] = EWMA_Update(@, loc[t].n)]
           /\ fed' = [fed EXCEPT ![m][k] = @ + loc[t].n]
           /\ loc' = [loc EXCEPT ![t].k = IF k < 3 THEN k + 1 ELSE 1,
                                 ![t].caller = IF k < 3 THEN "" ELSE "Mark"]
           /\ Goto(t, IF k < 3 THEN "mk_upd" ELSE "us_rate")
    /\ UNCHANGED <<InCall, alloc, made, stopped, mlock, snap, startTime, nsnap,
                   snaps, arbVars, envVars, sumMarked, stopRet, deregs, ticks,
                   launches, pass, sumDelta, lastElapsed>>

----------------------------------------------------------------------------
\* StandardMeter.Stop

Stop(t, m) ==
    /\ Call(t, "Stop", m)
    /\ m \in made
    /\ Goto(t, "st_lock")
    /\ loc' = [loc EXCEPT ![t].m = m]
    /\ UNCHANGED <<ret, meterVars, arbVars, envVars, histVars>>

\* m.lock.Lock()
Stop_Lock(t) ==
    /\ pc[t] = "st_lock"
    /\ mlock[loc[t].m] = None
    /\ mlock' = [mlock EXCEPT ![loc[t].m] = t]
    /\ Goto(t, "st_crit")
    /\ UNCHANGED <<loc, InCall, alloc, made, stopped, snap, ewma, startTime,
                   nsnap, snaps, arbVars, envVars, histVars>>

\* Mutant of Stop_Critical: the deregistration is not guarded by the value
\* the flag had.
Stop_Critical_Unguarded(t) ==
    /\ pc[t] = "st_crit"
    /\ stopped' = [stopped EXCEPT ![loc[t].m] = 1]
    /\ mlock' = [mlock EXCEPT ![loc[t].m] = None]
    /\ Goto(t, "st_alock")
    /\ UNCHANGED <<loc, InCall, alloc, made, snap, ewma, startTime, nsnap, snaps,
                   arbVars, envVars, histVars>>

\* Mutant of Stop_Critical: the mutex is still held when the call goes on
\* to arbiter.Lock() (the Unlock is deferred), and is released on return.
Stop_Critical_HoldsMutex(t) ==
    /\ pc[t] = "st_crit"
    /\ LET m == loc[t].m IN
       /\ stopped' = [stopped EXCEPT ![m] = 1]
       /\ IF stopped[m] # 1
          THEN /\ Goto(t, "st_alock")
               /\ UNCHANGED <<loc, ret, stopRet, mlock>>
          ELSE /\ Return(t, RetOk)
               /\ mlock' = [mlock EXCEPT ![m] = None]
               /\ stopRet' = [stopRet EXCEPT ![m] = TRUE]
    /\ UNCHANGED <<op, ncalls, alloc, made, snap, ewma, startTime, nsnap, snaps,
                   arbVars, envVars, sumMarked, fed, deregs, ticks, launches, pass,
                   sumDelta, lastElapsed>>

\* stopped := m.stopped; m.stopped = 1; m.lock.Unlock(); when stopped was
\* already 1 the call returns here.
Stop_Critical(t) ==
    /\ pc[t] = "st_crit"
    /\ LET m == loc[t].m IN
       /\ stopped' = [stopped EXCEPT ![m] = 1]
       /\ mlock' = [mlock EXCEPT ![m] = None]
       /\ IF stopped[m] # 1
          THEN /\ Goto(t, "st_alock")
               /\ UNCHANGED <<loc, ret, stopRet>>
          ELSE /\ Return(t, RetOk)
               /\ stopRet' = [stopRet EXCEPT ![m] = TRUE]
    /\ UNCHANGED <<op, ncalls, alloc, made, snap, ewma, startTime, nsnap, snaps,
                   arbVars, envVars, sumMarked, fed, deregs, ticks, launches, pass,
                   sumDelta, lastElapsed>>

\* Mutant of Stop_ArbLock: the write lock does not wait for the readers.
Stop_ArbLock_NoWait(t) ==
    /\ pc[t] = "st_alock"
    /\ arbiter.writer = None
    /\ arbiter' = [arbiter EXCEPT !.writer = t]
    /\ Goto(t, "st_del")
    /\ UNCHANGED <<loc, InCall, meterVars, tickerC, envVars, histVars>>

\* arbiter.Lock()
Stop_ArbLock(t) ==
    /\ pc[t] = "st_alock"
    /\ arbiter.writer = None /\ arbiter.readers = 0
    /\ arbiter' = [arbiter EXCEPT !.writer = t]
    /\ Goto(t, "st_del")
    /\ UNCHANGED <<loc, InCall, meterVars, tickerC, envVars, histVars>>

\* delete(arbiter.meters, m); arbiter.Unlock(); return
Stop_Delete(t) ==
    /\ pc[t] = "st_del"
    /\ LET m == loc[t].m IN
       /\ arbiter' = [arbiter EXCEPT !.meters = @ \ {m}, !.writer = None]
       /\ deregs' = [deregs EXCEPT ![m] = @ + 1]
       /\ stopRet' = [stopRet EXCEPT ![m] = TRUE]
    /\ Return(t, RetOk)
    /\ UNCHANGED <<op, ncalls, meterVars, tickerC, envVars, sumMarked, fed, ticks,
                   launches, pass, sumDelta, lastElapsed>>

----------------------------------------------------------------------------
\* StandardMeter.updateSnapshotOnStep, run by RateStep and Snapshot with
\* m.lock held.  _lastCount, _lastTime and rateStep are touched only here.

\* nw := time.Now()
updateSnapshotOnStep_Now(t) ==
    /\ pc[t] = "os_now"
    /\ loc' = [loc EXCEPT ![t].nw = now, ![t].k = 1]
    /\ Goto(t, "os_rate")
    /\ UNCHANGED <<InCall, meterVars, arbVars, envVars, histVars>>

\* rate1 := Float64bits(m.a1.Rate()), then rate5, rate15.
updateSnapshotOnStep_Rate(t) ==
    /\ pc[t] = "os_rate"
    /\ LET m == loc[t].m
           k == loc[t].k
       IN  /\ loc' = [loc EXCEPT ![t].r[k] = Float64bits(EWMA_Rate(ewma[m][k])),
                                 ![t].k = IF k < 3 THEN k + 1 ELSE 0]
           /\ Goto(t, IF k < 3 THEN "os_rate" ELSE "os_mean")
    /\ UNCHANGED <<InCall, meterVars, arbVars, envVars, histVars>>

\* if sub > 0 { rateMean := Float64bits(float64(m.snapshot.count) / sub) ...
updateSnapshotOnStep_Mean(t) ==
    /\ pc[t] = "os_mean"
    /\ LET m == loc[t].m
           sub == loc[t].nw - startTime[m]
       IN  IF sub > 0
           THEN /\ loc' = [loc EXCEPT
                       ![t].mean = Float64bits(FloatDiv(snap[m].count, sub))]
                /\ lastElapsed' = [lastElapsed EXCEPT ![m] = sub]
                /\ Goto(t, "os_smean")
           ELSE /\ Goto(t, "os_step")
                /\ UNCHANGED <<loc, lastElapsed>>
    /\ UNCHANGED <<InCall, meterVars, arbVars, envVars, sumMarked, fed, stopRet,
                   deregs, ticks, launches, pass, sumDelta>>

\* ... atomic.StoreUint64(&m.snapshot.rateMean, rateMean) }
updateSnapshotOnStep_StoreMean(t) ==
    /\ pc[t] = "os_smean"
    /\ snap' = [snap EXCEPT ![loc[t].m].rateMean = loc[t].mean]
    /\ Goto(t, "os_step")
    /\ UNCHANGED <<loc, InCall, alloc, made, stopped, mlock, ewma, startTime,
                   nsnap, snaps, arbVars, envVars, histVars>>

\* if step > 0 { rateStep := Float64bits(float64(count - _lastCount) / step);
\* store rateStep }
updateSnapshotOnStep_Step(t) ==
    /\ pc[t] = "os_step"
    /\ LET m == loc[t].m
           step == loc[t].nw - snap[m].lastTime
       IN  IF step > 0
           THEN /\ snap' = [snap EXCEPT ![m].rateStep =
                    Float64bits(FloatDiv(snap[m].count - snap[m].lastCount, step))]
                /\ sumDelta' = [sumDelta EXCEPT
                                    ![m] = @ + (snap[m].count - snap[m].lastCount)]
           ELSE UNCHANGED <<snap, sumDelta>>
    /\ loc' = [loc EXCEPT ![t].k = 1]
    /\ Goto(t, "os_store")
    /\ UNCHANGED <<InCall, alloc, made, stopped, mlock, ewma, startTime,
                   nsnap, snaps, arbVars, envVars, sumMarked, fed, stopRet,
                   deregs, ticks, launches, pass, lastElapsed>>

\* atomic.StoreUint64 of rate1, rate5, rate15, one at a time.
updateSnapshotOnStep_Store(t) ==
    /\ pc[t] = "os_store"
    /\ LET m == loc[t].m
           k == loc[t].k
       IN  /\ snap' = [snap EXCEPT ![m][RateField[k]] = loc[t].r[k]]
           /\ loc' = [loc EXCEPT ![t].k = IF k < 3 THEN k + 1 ELSE 0]
           /\ Goto(t, IF k < 3 THEN "os_store" ELSE "os_last")
    /\ UNCHANGED <<InCall, alloc, made, stopped, mlock, ewma, startTime,
                   nsnap, snaps, arbVars, envVars, histVars>>

\* m.snapshot._lastCount = m.snapshot.count; m.snapshot._lastTime = nw
updateSnapshotOnStep_Last(m, nw) ==
    [snap EXCEPT ![m].lastCount = snap[m].count, ![m].lastTime = nw]

----------------------------------------------------------------------------
\* StandardMeter.RateStep

RateStep(t, m) ==
    /\ Call(t, "RateStep", m)
    /\ m \in made
    /\ Goto(t, "rs_lock")
    /\ loc' = [loc EXCEPT ![t].m = m, ![t].caller = "RateStep"]
    /\ UNCHANGED <<ret, meterVars, arbVars, envVars, histVars>>

\* m.lock.Lock()
RateStep_Lock(t) ==
    /\ pc[t] = "rs_lock"
    /\ mlock[loc[t].m] = None
    /\ mlock' = [mlock EXCEPT ![loc[t].m] = t]
    /\ Goto(t, "os_now")
    /\ UNCHANGED <<loc, InCall, alloc, made, stopped, snap, ewma, startTime,
                   nsnap, snaps, arbVars, envVars, histVars>>

\* The last two assignments of updateSnapshotOnStep, then
\* return Float64frombits(LoadUint64(&m.snapshot.rateStep)) and the deferred
\* m.lock.Unlock().
RateStep_Return(t) ==
    /\ pc[t] = "os_last"
    /\ loc[t].caller = "RateStep"
    /\ LET m == loc[t].m IN
       /\ snap' = updateSnapshotOnStep_Last(m, loc[t].nw)
       /\ mlock' = [mlock EXCEPT ![m] = None]
       /\ Return(t, RetFloat(Float64frombits(snap[m].rateStep)))
    /\ UNCHANGED <<op, ncalls, alloc, made, stopped, ewma, startTime,
                   nsnap, snaps, arbVars, envVars, histVars>>

----------------------------------------------------------------------------
\* StandardMeter.Snapshot

Snapshot(t, m) ==
    /\ Call(t, "Snapshot", m)
    /\ m \in made
    /\ nsnap < MaxSnaps
    /\ nsnap' = nsnap + 1
    /\ Goto(t, "sn_lock")
    /\ loc' = [loc EXCEPT ![t].m = m, ![t].caller = "Snapshot",
                          ![t].ref = MaxMeters + nsnap + 1]
    /\ UNCHANGED <<ret, alloc, made, stopped, mlock, snap, ewma, startTime,
                   snaps, arbVars, envVars, histVars>>

\* m.lock.Lock()
Snapshot_Lock(t) ==
    /\ pc[t] = "sn_lock"
    /\ mlock[loc[t].m] = None
    /\ mlock' = [mlock EXCEPT ![loc[t].m] = t]
    /\ Goto(t, "os_now")
    /\ UNCHANGED <<loc, InCall, alloc, made, stopped, snap, ewma, startTime,
                   nsnap, snaps, arbVars, envVars, histVars>>

\* The last two assignments of updateSnapshotOnStep, on behalf of Snapshot.
Snapshot_Last(t) ==
    /\ pc[t] = "os_last"
    /\ loc[t].caller = "Snapshot"
    /\ snap' = updateSnapshotOnStep_Last(loc[t].m, loc[t].nw)
    /\ loc' = [loc EXCEPT ![t].k = 1]
    /\ Goto(t, "sn_copy")
    /\ UNCHANGED <<InCall, alloc, made, stopped, mlock, ewma, startTime,
                   nsnap, snaps, arbVars, envVars, histVars>>

\* copiedSnapshot := MeterSnapshot{count: LoadInt64(..), rate1: LoadUint64(..),
\* rate5: .., rate15: .., rateMean: ..}: the first four loads.
Snapshot_Copy(t) ==
    /\ pc[t] = "sn_copy"
    /\ loc[t].k < 5
    /\ loc' = [loc EXCEPT ![t].cp[loc[t].k] = snap[loc[t].m][CopyField[loc[t].k]],
                          ![t].k = @ + 1]
    /\ UNCHANGED <<pc, InCall, meterVars, arbVars, envVars, histVars>>

\* Mutant of Snapshot_Result: the meter's own record is returned (return
\* m.snapshot), not the copy.
Snapshot_Result_Alias(m, fresh) == m

\* What Snapshot returns: the address of the fresh copy.
Snapshot_Result(m, fresh) == fresh

\* The fifth load, return &copiedSnapshot, and the deferred m.lock.Unlock().
Snapshot_Return(t) ==
    /\ pc[t] = "sn_copy"
    /\ loc[t].k = 5
    /\ LET m == loc[t].m
           cp == [loc[t].cp EXCEPT ![5] = snap[m].rateMean]
           s == Snapshot_Result(m, loc[t].ref)
       IN  /\ snap' = [snap EXCEPT ![loc[t].ref] =
                        [NewMeterSnapshot EXCEPT !.count = cp[1], !.rate1 = cp[2],
                            !.rate5 = cp[3], !.rate15 = cp[4], !.rateMean = cp[5]]]
           /\ snaps' = snaps \cup {s}
           /\ mlock' = [mlock EXCEPT ![m] = None]
           /\ Return(t, RetInt("snapshot", s))
    /\ UNCHANGED <<op, ncalls, alloc, made, stopped, ewma, startTime, nsnap,
                   arbVars, envVars, histVars>>

----------------------------------------------------------------------------
\* The lock-free readers of StandardMeter: one atomic load each.

Count(t, m) ==
    /\ Call(t, "Count", m)
    /\ m \in made
    /\ Return(t, RetInt("count", snap[m].count))
    /\ UNCHANGED <<meterVars, arbVars, envVars, histVars>>

Rate1(t, m) ==
    /\ Call(t, "Rate1", m)
    /\ m \in made
    /\ Return(t, RetFloat(Float64frombits(snap[m].rate1)))
    /\ UNCHANGED <<meterVars, arbVars, envVars, histVars>>

Rate5(t, m) ==
    /\ Call(t, "Rate5", m)
    /\ m \in made
    /\ Return(t, RetFloat(Float64frombits(snap[m].rate5)))
    /\ UNCHANGED <<meterVars, arbVars, envVars, histVars>>

Rate15(t, m) ==
    /\ Call(t, "Rate15", m)
    /\ m \in made
    /\ Return(t, RetFloat(Float64frombits(snap[m].rate15)))
    /\ UNCHANGED <<meterVars, arbVars, envVars, histVars>>

RateMean(t, m) ==
    /\ Call(t, "RateMean", m)
    /\ m \in made
    /\ Return(t, RetFloat(Float64frombits(snap[m].rateMean)))
    /\ UNCHANGED <<meterVars, arbVars, envVars, histVars>>

----------------------------------------------------------------------------
\* MeterSnapshot: the methods of a reference s returned by Snapshot().

\* Mutant of MeterSnapshot_Mark: a silent no-op, as NilMeter.Mark is.
MeterSnapshot_Mark_Silent(t, s, n) ==
    /\ Call(t, "MeterSnapshot.Mark", s)
    /\ s \in snaps
    /\ Return(t, RetOk)
    /\ UNCHANGED <<meterVars, arbVars, envVars, histVars>>

\* func (*MeterSnapshot) Mark(n int64) { panic(...) }
MeterSnapshot_Mark(t, s, n) ==
    /\ Call(t, "MeterSnapshot.Mark", s)
    /\ s \in snaps
    /\ Return(t, RetPanic)
    /\ UNCHANGED <<meterVars, arbVars, envVars, histVars>>

MeterSnapshot_Count(t, s) ==
    /\ Call(t, "MeterSnapshot.Count", s)
    /\ s \in snaps
    /\ Return(t, RetInt("count", snap[s].count))
    /\ UNCHANGED <<meterVars, arbVars, envVars, histVars>>

\* Rate1, Rate5, Rate15, RateMean: Float64frombits of the field, no atomics.
MeterSnapshot_Rate(t, s, k) ==
    /\ Call(t, "MeterSnapshot.Rate", s)
    /\ s \in snaps
    /\ Return(t, RetFloat(Float64frombits(snap[s][RateField[k]])))
    /\ UNCHANGED <<meterVars, arbVars, envVars, histVars>>

MeterSnapshot_RateStep(t, s) ==
    /\ Call(t, "MeterSnapshot.RateStep", s)
    /\ s \in snaps
    /\ Return(t, RetFloat(Float64frombits(snap[s].rateStep)))
    /\ UNCHANGED <<meterVars, arbVars, envVars, histVars>>

\* func (m *MeterSnapshot) Snapshot() Meter { return m }
MeterSnapshot_Snapshot(t, s) ==
    /\ Call(t, "MeterSnapshot.Snapshot", s)
    /\ s \in snaps
    /\ Return(t, RetInt("snapshot", s))
    /\ UNCHANGED <<meterVars, arbVars, envVars, histVars>>

\* func (m *MeterSnapshot) Stop() {}
MeterSnapshot_Stop(t, s) ==
    /\ Call(t, "MeterSnapshot.Stop", s)
    /\ s \in snaps
    /\ Return(t, RetOk)
    /\ UNCHANGED <<meterVars, arbVars, envVars, histVars>>

----------------------------------------------------------------------------
\* The clock and the ticker.

\* One second passes; time.NewTicker(5e9) sends on its channel (capacity 1,
\* a tick is dropped when the channel is full) every TickSeconds.
Advance ==
    /\ now < MaxTime
    /\ now' = now + 1
    /\ tickerC' = IF (now + 1) % TickSeconds = 0 THEN 1 ELSE tickerC
    /\ UNCHANGED <<threadVars, meterVars, arbiter, UseNilMetrics, histVars>>

\* The ticker goes on sending every TickSeconds after the clock of the model
\* has stopped at MaxTime (readings of the clock saturate there).
Ticker_Fire ==
    /\ now = MaxTime
    /\ tickerC' = 1
    /\ UNCHANGED <<threadVars, meterVars, arbiter, envVars, histVars>>

----------------------------------------------------------------------------
\* meterArbiter: the goroutine started by the first NewMeter.

\* case nw := <-ma.ticker.C: ma.tickMeters(nw)
meterArbiter_tick ==
    /\ pc[Arb] = "ar_wait"
    /\ tickerC = 1
    /\ tickerC' = 0
    /\ Goto(Arb, "ar_rlock")
    /\ UNCHANGED <<loc, InCall, meterVars, arbiter, envVars, histVars>>

\* ma.RLock(); the range statement iterates over the map as it is now (it
\* cannot change while the read lock is held).
tickMeters_RLock ==
    /\ pc[Arb] = "ar_rlock"
    /\ arbiter.writer = None
    /\ arbiter' = [arbiter EXCEPT !.readers = 1]
    /\ loc' = [loc EXCEPT ![Arb].todo = arbiter.meters]
    /\ pass' = [NoPass EXCEPT !.members = arbiter.meters]
    /\ Goto(Arb, "ar_next")
    /\ UNCHANGED <<InCall, meterVars, tickerC, envVars, sumMarked, fed, stopRet,
                   deregs, ticks, launches, sumDelta, lastElapsed>>

\* for meter := range ma.meters { meter.tick(nw) }: the next meter, in the
\* unspecified order of a Go map.
tickMeters_Range(m) ==
    /\ pc[Arb] = "ar_next"
    /\ m \in loc[Arb].todo
    /\ loc' = [loc EXCEPT ![Arb].todo = @ \ {m}, ![Arb].m = m, ![Arb].k = 1]
    /\ ticks' = [ticks EXCEPT ![m] = IF @ < MaxTicks THEN @ + 1 ELSE @]
    /\ pass' = [pass EXCEPT !.ticked[m] = @ + 1]
    /\ Goto(Arb, "tk_drain")
    /\ UNCHANGED <<InCall, meterVars, arbVars, envVars, sumMarked, fed,
                   stopRet, deregs, launches, sumDelta, lastElapsed>>

\* Mutant of tickMeters_RUnlock: the loop of meterArbiter.tick returns after
\* its first pass.
tickMeters_RUnlock_Once ==
    /\ pc[Arb] = "ar_next"
    /\ loc[Arb].todo = {}
    /\ arbiter' = [arbiter EXCEPT !.readers = 0]
    /\ loc' = [loc EXCEPT ![Arb] = NoLoc]
    /\ pass' = NoPass
    /\ Goto(Arb, "returned")
    /\ UNCHANGED <<InCall, meterVars, tickerC, envVars, sumMarked, fed, stopRet,
                   deregs, ticks, launches, sumDelta, lastElapsed>>

\* The range is exhausted: the deferred ma.RUnlock(), back to the select.
tickMeters_RUnlock ==
    /\ pc[Arb] = "ar_next"
    /\ loc[Arb].todo = {}
    /\ arbiter' = [arbiter EXCEPT !.readers = 0]
    /\ loc' = [loc EXCEPT ![Arb] = NoLoc]
    /\ pass' = NoPass
    /\ Goto(Arb, "ar_wait")
    /\ UNCHANGED <<InCall, meterVars, tickerC, envVars, sumMarked, fed, stopRet,
                   deregs, ticks, launches, sumDelta, lastElapsed>>

\* StandardMeter.tick: m.a1.Tick(), m.a5.Tick(), m.a15.Tick(), each in two
\* steps (take uncounted; fold it into rate), then m.updateSnapshot().
tick_Drain ==
    /\ pc[Arb] = "tk_drain"
    /\ LET m == loc[Arb].m
           k == loc[Arb].k
       IN  /\ loc' = [loc EXCEPT ![Arb].cnt = ewma[m][k].uncounted]
           /\ ewma' = [ewma EXCEPT ![m][k] = EWMA_Drain(@)]
    /\ Goto(Arb, "tk_fold")
    /\ UNCHANGED <<InCall, alloc, made, stopped, mlock, snap, startTime, nsnap,
                   snaps, arbVars, envVars, histVars>>

tick_Fold ==
    /\ pc[Arb] = "tk_fold"
    /\ LET m == loc[Arb].m
           k == loc[Arb].k
       IN  /\ ewma' = [ewma EXCEPT ![m][k] = EWMA_Fold(@, k, loc[Arb].cnt)]
           /\ loc' = [loc EXCEPT ![Arb].k = IF k < 3 THEN k + 1 ELSE 1,
                                 ![Arb].cnt = 0,
                                 ![Arb].caller = IF k < 3 THEN "" ELSE "tick"]
           /\ Goto(Arb, IF k < 3 THEN "tk_drain" ELSE "us_rate")
    /\ UNCHANGED <<InCall, alloc, made, stopped, mlock, snap, startTime, nsnap,
                   snaps, arbVars, envVars, histVars>>

----------------------------------------------------------------------------
\* NilMeter: an empty struct, a value every goroutine can hold; its methods
\* read and write nothing.

\* Mutant of NewMeter_Nil: the flag is looked at after the registration, so
\* the loop is launched although the no-op variant is returned.
NewMeter_Nil_Launches(t) ==
    /\ Call(t, "NewMeter", 0)
    /\ UseNilMetrics
    /\ Return(t, RetInt("nil", 0))
    /\ arbiter' = [arbiter EXCEPT !.started = TRUE]
    /\ launches' = IF arbiter.started THEN launches ELSE launches + 1
    /\ UNCHANGED <<meterVars, tickerC, envVars, sumMarked, fed, stopRet, deregs,
                   ticks, pass, sumDelta, lastElapsed>>

\* if UseNilMetrics { return NilMeter{} }
NewMeter_Nil(t) ==
    /\ Call(t, "NewMeter", 0)
    /\ UseNilMetrics
    /\ Return(t, RetInt("nil", 0))
    /\ UNCHANGED <<meterVars, arbVars, envVars, histVars>>

\* func (NilMeter) Count() int64 { return 0 }
NilMeter_Count(t) ==
    /\ Call(t, "NilMeter.Count", 0)
    /\ Return(t, RetInt("count", 0))
    /\ UNCHANGED <<meterVars, arbVars, envVars, histVars>>

\* func (NilMeter) Mark(n int64) {}
NilMeter_Mark(t, n) ==
    /\ Call(t, "NilMeter.Mark", 0)
    /\ Return(t, RetOk)
    /\ UNCHANGED <<meterVars, arbVars, envVars, histVars>>

\* Rate1, Rate5, Rate15, RateMean: return 0.0
NilMeter_Rate(t, k) ==
    /\ Call(t, "NilMeter." \o RateField[k], 0)
    /\ Return(t, RetFloat(Num(0)))
    /\ UNCHANGED <<meterVars, arbVars, envVars, histVars>>

\* func (NilMeter) RateStep() float64 { return 0.0 }
NilMeter_RateStep(t) ==
    /\ Call(t, "NilMeter.RateStep", 0)
    /\ Return(t, RetFloat(Num(0)))
    /\ UNCHANGED <<meterVars, arbVars, envVars, histVars>>

\* func (NilMeter) Snapshot() Meter { return NilMeter{} }
NilMeter_Snapshot(t) ==
    /\ Call(t, "NilMeter.Snapshot", 0)
    /\ Return(t, RetInt("nil", 0))
    /\ UNCHANGED <<meterVars, arbVars, envVars, histVars>>

\* func (NilMeter) Stop() {}
NilMeter_Stop(t) ==
    /\ Call(t, "NilMeter.Stop", 0)
    /\ Return(t, RetOk)
    /\ UNCHANGED <<meterVars, arbVars, envVars, histVars>>

NilMeterStep(t) ==
    \/ NilMeter_Count(t)
    \/ \E n \in MarkVals : NilMeter_Mark(t, n)
    \/ \E k \in 1 .. 4 : NilMeter_Rate(t, k)
    \/ NilMeter_RateStep(t)
    \/ NilMeter_Snapshot(t)
    \/ NilMeter_Stop(t)

----------------------------------------------------------------------------
\* The whole program.

NewMeterStep(t) == NewMeter(t) \/ NewMeter_Lock(t) \/ NewMeter_Register(t)

MarkStep(t) ==
    \/ \E m \in Meters, n \in MarkVals : Mark(t, m, n)
    \/ Mark_Add(t) \/ Mark_Update(t)
    \/ updateSnapshot_Rate(t) \/ updateSnapshot_Mean(t) \/ updateSnapshot_Store(t)

StopStep(t) ==
    \/ \E m \in Meters : Stop(t, m)
    \/ Stop_Lock(t) \/ Stop_Critical(t) \/ Stop_ArbLock(t) \/ Stop_Delete(t)

RateStepStep(t) ==
    \/ \E m \in Meters : RateStep(t, m)
    \/ RateStep_Lock(t) \/ RateStep_Return(t)

SnapshotStep(t) ==
    \/ \E m \in Meters : Snapshot(t, m)
    \/ Snapshot_Lock(t) \/ Snapshot_Last(t) \/ Snapshot_Copy(t) \/ Snapshot_Return(t)

OnStepStep(t) ==
    \/ updateSnapshotOnStep_Now(t) \/ updateSnapshotOnStep_Rate(t)
    \/ updateSnapshotOnStep_Mean(t) \/ updateSnapshotOnStep_StoreMean(t)
    \/ updateSnapshotOnStep_Step(t) \/ updateSnapshotOnStep_Store(t)

ReadStep(t) ==
    \/ \E m \in Meters : Count(t, m)
    \/ \E m \in Meters : Rate1(t, m)
    \/ \E m \in Meters : Rate5(t, m)
    \/ \E m \in Meters : Rate15(t, m)
    \/ \E m \in Meters : RateMean(t, m)

MeterSnapshotStep(t) ==
    \/ \E s \in SnapIds, n \in MarkVals : MeterSnapshot_Mark(t, s, n)
    \/ \E s \in SnapIds : MeterSnapshot_Count(t, s)
    \/ \E s \in SnapIds, k \in 1 .. 4 : MeterSnapshot_Rate(t, s, k)
    \/ \E s \in SnapIds : MeterSnapshot_RateStep(t, s)
    \/ \E s \in SnapIds : MeterSnapshot_Snapshot(t, s)
    \/ \E s \in SnapIds : MeterSnapshot_Stop(t, s)

ThreadStep(t) ==
    \/ NewMeterStep(t) \/ MarkStep(t) \/ StopStep(t) \/ RateStepStep(t)
    \/ SnapshotStep(t) \/ OnStepStep(t) \/ ReadStep(t) \/ MeterSnapshotStep(t)
    \/ NewMeter_Nil(t) \/ NilMeterStep(t)

ArbiterStep ==
    \/ meterArbiter_tick
    \/ tickMeters_RLock
    \/ \E m \in Meters : tickMeters_Range(m)
    \/ tickMeters_RUnlock
    \/ tick_Drain \/ tick_Fold
    \/ updateSnapshot_Rate(Arb) \/ updateSnapshot_Mean(Arb)
    \/ updateSnapshot_Store(Arb)

Next == (\E t \in Threads : ThreadStep(t)) \/ ArbiterStep \/ Advance

Spec == Init /\ [][Next]_vars

----------------------------------------------------------------------------
\* Scenarios.  The state space of the whole program is far beyond exhaustive
\* search, so each group of properties is checked on the program started in a
\* state it reaches, running the operations the properties are about.

\* The state at second t1 after a main goroutine has built and registered
\* the meters of M at second t0 (NewMeter called |M| times, its results
\* handed to the threads), every thread having completed c earlier calls.
InitRegAt(M, t0, t1, c) ==
    /\ pc = [p \in Procs |-> IF p = Arb THEN "ar_wait" ELSE "idle"]
    /\ loc = [p \in Procs |-> NoLoc]
    /\ op = [t \in Threads |-> <<"", 0>>]
    /\ ncalls = [t \in Threads |-> c]
    /\ ret = [t \in Threads |-> NoRet]
    /\ alloc = Cardinality(M)
    /\ made = M
    /\ stopped = [m \in Meters |-> 0]
    /\ mlock = [m \in Meters |-> None]
    /\ snap = [s \in SnapIds |->
                IF s \in M THEN [NewMeterSnapshot EXCEPT !.lastTime = t0]
                           ELSE NewMeterSnapshot]
    /\ ewma = [m \in Meters |-> [k \in EWMAs |-> NewEWMA]]
    /\ startTime = [m \in Meters |-> IF m \in M THEN t0 ELSE 0]
    /\ nsnap = 0
    /\ snaps = {}
    /\ arbiter = [NewArbiter EXCEPT !.started = TRUE, !.meters = M]
    /\ tickerC = 0
    /\ now = t1
    /\ UseNilMetrics = FALSE
    /\ sumMarked = [m \in Meters |-> 0]
    /\ fed = [m \in Meters |-> [k \in EWMAs |-> 0]]
    /\ stopRet = [m \in Meters |-> FALSE]
    /\ deregs = [m \in Meters |-> 0]
    /\ ticks = [m \in Meters |-> 0]
    /\ launches = 1
    /\ pass = NoPass
    /\ sumDelta = [m \in Meters |-> 0]
    /\ lastElapsed = [m \in Meters |-> None]

\* The same, right after the registration.
InitReg(M, t0, c) == InitRegAt(M, t0, t0, c)

\* Mark, Stop and Count from every thread, the clock running; the arbiter
\* goroutine is not scheduled.
NextMark ==
    \/ \E t \in Threads : MarkStep(t) \/ StopStep(t) \/ (\E m \in Meters : Count(t, m))
    \/ Advance

SpecMark == InitReg({1}, TickSeconds - 1, 0) /\ [][NextMark]_vars

\* Mark(MaxMark) and Stop from every thread, one call each, against the
\* arbiter's tick pass.
MarkMaxStep(t) ==
    \/ \E m \in Meters : Mark(t, m, MaxMark)
    \/ Mark_Add(t) \/ Mark_Update(t)
    \/ updateSnapshot_Rate(t) \/ updateSnapshot_Mean(t) \/ updateSnapshot_Store(t)

NextStop ==
    \/ \E t \in Threads : MarkMaxStep(t) \/ StopStep(t)
    \/ ArbiterStep
    \/ Advance

SpecStop == InitReg({1}, TickSeconds - 1, MaxCalls - 1) /\ [][NextStop]_vars

\* Snapshot, RateStep, Mark(MaxMark), Stop and the methods of the returned
\* snapshot from every thread, one call each, against the arbiter's tick
\* pass.
NextSnap ==
    \/ \E t \in Threads :
        \/ MarkMaxStep(t) \/ StopStep(t) \/ RateStepStep(t) \/ SnapshotStep(t)
        \/ OnStepStep(t) \/ MeterSnapshotStep(t)
    \/ ArbiterStep
    \/ Advance

SpecSnap == InitReg({1}, TickSeconds - 1, MaxCalls - 1) /\ [][NextSnap]_vars

\* The lock-free operations (Mark and the readers) against every operation
\* that holds a lock: Stop, RateStep and Snapshot (m.lock), NewMeter and Stop
\* (arbiter.Lock), the tick pass (arbiter.RLock); one call per thread.
NextLocks ==
    \/ \E t \in Threads :
        \/ MarkMaxStep(t) \/ ReadStep(t)
        \/ StopStep(t) \/ RateStepStep(t) \/ SnapshotStep(t) \/ OnStepStep(t)
        \/ NewMeterStep(t)
    \/ ArbiterStep
    \/ Advance

SpecLocks == InitReg({1}, TickSeconds - 1, MaxCalls - 1) /\ [][NextLocks]_vars

----------------------------------------------------------------------------
\* Properties.

MarkLabels == {"mk_add", "mk_upd", "us_rate", "us_mean", "us_store"}

\* Thread t is inside a Mark call on m that passed the stopped check.
InMark(t, m) == pc[t] \in MarkLabels /\ loc[t].m = m

NoMarkInFlight(m) == \A t \in Threads : ~InMark(t, m)

\* The step is the beginning of a call of method name on receiver r by t.
Begins(t, name, r) == ncalls'[t] = ncalls[t] + 1 /\ op'[t] = <<name, r>>

\* C1: on a meter that has not been stopped, once every Mark call has
\* returned, Count() is the exact sum of the n passed to Mark, whatever the
\* interleaving of the calls.
C1_CountIsSum ==
    \A m \in made :
        (stopped[m] = 0 /\ NoMarkInFlight(m)) => snap[m].count = sumMarked[m]

\* Every thread has made all its calls, all of them Mark, on a meter never
\* stopped, and their sum is MaxThreads * MaxCalls * MaxMark.
C1_Witness ==
    \E m \in made :
        /\ stopped[m] = 0
        /\ \A t \in Threads :
            pc[t] = "idle" /\ op[t] = <<"Mark", m>> /\ ncalls[t] = MaxCalls
        /\ snap[m].count = MaxThreads * MaxCalls * MaxMark
        /\ snap[m].count = sumMarked[m]

\* C2: a Mark call that begins after a Stop on the same meter has returned
\* returns normally at once and leaves count, the EWMAs and the published
\* rates as they are; and once Stop has returned and no Mark is in flight,
\* count never changes again.
C2_MarkAfterStopIsNoOp ==
    [][\A m \in Meters :
        stopRet[m] =>
            /\ \A t \in Threads :
                Begins(t, "Mark", m) =>
                    /\ pc'[t] = "idle"
                    /\ ret'[t] = RetOk
                    /\ snap'[m] = snap[m]
                    /\ ewma'[m] = ewma[m]
            /\ NoMarkInFlight(m) => snap'[m].count = snap[m].count]_vars

\* Thread 1 stopped the meter with its first call while nobody else had
\* called anything before it returned, then called Mark on the stopped
\* meter, which has returned too.
C2_Witness ==
    \E m \in made :
        /\ stopRet[m]
        /\ op[1] = <<"Mark", m>> /\ ncalls[1] = 2 /\ pc[1] = "idle"
        /\ \A t \in Threads \ {1} : ncalls[t] = 0
        /\ sumMarked[m] # 0
        /\ snap[m].count = 0

\* C8 as stated: count never decreases.  Count() is one atomic load of the
\* field, so the values successive Count() calls return never decrease iff
\* the field never does.
C8_CountMonotonic ==
    [][\A m \in Meters : snap'[m].count >= snap[m].count]_vars

\* C8 amended: count decreases only in the add step of a Mark(n) with n < 0;
\* with non-negative n only, Count() is monotonic.
C8_DecreaseOnlyByNegativeMark ==
    [][\A m \in Meters :
        snap'[m].count < snap[m].count =>
            \E t \in Threads :
                pc[t] = "mk_add" /\ loc[t].m = m /\ loc[t].n < 0]_vars

\* A Count() call has returned the value left by two positive Marks.
C8_Witness ==
    \E m \in made, t \in Threads :
        /\ op[t] = <<"Count", m>> /\ pc[t] = "idle"
        /\ ret[t].v = 2 * MaxMark
        /\ snap[m].count = ret[t].v

\* C10: a Mark racing with Stop applies wholly or not at all: a Mark in
\* flight returns only after the last store of updateSnapshot, and whenever
\* no Mark is in flight each EWMA has been fed exactly what count has
\* received.
C10_MarkAllOrNothing ==
    [][/\ \A t \in Threads :
            (pc[t] \in MarkLabels /\ pc'[t] = "idle") =>
                (pc[t] = "us_store" /\ loc[t].k = 4)
       /\ \A m \in Meters :
            NoMarkInFlight(m)' =>
                \A k \in EWMAs : fed'[m][k] = snap'[m].count]_vars

\* A Mark passed the check, Stop then ran to completion, and the Mark has
\* returned after applying all its effects to the stopped meter.
C10_Witness ==
    \E m \in made, t \in Threads :
        /\ stopRet[m]
        /\ NoMarkInFlight(m)
        /\ op[t] = <<"Mark", m>> /\ pc[t] = "idle" /\ ncalls[t] = 1
        /\ snap[m].count = MaxMark
        /\ \A u \in Threads \ {t} : op[u] = <<"Stop", m>> /\ ncalls[u] = 1

\* C3 as stated: once a Stop on m has returned, m is not in the arbiter's
\* set and m.tick is not invoked again.
C3_StoppedMeterNotTicked ==
    [][\A m \in Meters :
        /\ stopRet'[m] => m \notin arbiter'.meters
        /\ stopRet[m] => ticks'[m] = ticks[m]]_vars

\* C4 as stated: once a Stop on m has returned, what m.Rate1() returns
\* never changes.
C4_Rate1FrozenAfterStop ==
    [][\A m \in Meters :
        stopRet[m] => snap'[m].rate1 = snap[m].rate1]_vars

\* C7: the delete is executed at most once per meter, and a Stop that finds
\* the flag set returns normally having changed neither the flag, the
\* count, the rates, the EWMAs nor the arbiter.
C7_StopIdempotent ==
    [][/\ \A m \in Meters : deregs'[m] <= 1
       /\ \A t \in Threads :
            (/\ pc[t] \in {"st_lock", "st_crit"}
             /\ stopped[loc[t].m] = 1
             /\ pc'[t] # pc[t]) =>
                /\ stopped' = stopped /\ snap' = snap /\ ewma' = ewma
                /\ arbiter' = arbiter
                /\ pc[t] = "st_crit" => (pc'[t] = "idle" /\ ret'[t] = RetOk)]_vars

\* Every thread has called Stop on the same meter and has returned; the
\* meter was deregistered once.
C7_Witness ==
    \E m \in made :
        /\ \A t \in Threads : op[t] = <<"Stop", m>> /\ pc[t] = "idle"
        /\ deregs[m] = 1
        /\ stopped[m] = 1
        /\ m \notin arbiter.meters

\* What the accessors of the MeterSnapshot s return: Count, Rate1, Rate5,
\* Rate15, RateMean.
SnapshotView(s) ==
    <<s.count, Float64frombits(s.rate1), Float64frombits(s.rate5),
      Float64frombits(s.rate15), Float64frombits(s.rateMean)>>

\* C5: what the accessors of a value returned by Snapshot() return never
\* changes, whatever is done to the originating meter afterwards.
C5_SnapshotFrozen ==
    [][\A s \in snaps : SnapshotView(snap'[s]) = SnapshotView(snap[s])]_vars

\* A snapshot taken before a Mark and a tick: the meter has moved on (count
\* and rate1 differ from the snapshot's).
C5_Witness ==
    \E s \in snaps :
        /\ snap[s].count = 0 /\ snap[1].count = MaxMark
        /\ snap[s].rate1 = 0 /\ snap[1].rate1 # 0
        /\ ticks[1] >= 1

\* C6: every call of Mark on a value returned by Snapshot() panics, and
\* changes no snapshot, no meter and nothing of the arbiter.
C6_SnapshotMarkPanics ==
    [][\A t \in Threads, s \in SnapIds :
        Begins(t, "MeterSnapshot.Mark", s) =>
            /\ ret'[t] = RetPanic
            /\ snap' = snap /\ ewma' = ewma /\ stopped' = stopped
            /\ mlock' = mlock /\ arbiter' = arbiter]_vars

\* A thread has called Mark on a snapshot and the call has panicked.
C6_Witness ==
    \E t \in Threads, s \in snaps :
        op[t] = <<"MeterSnapshot.Mark", s>> /\ pc[t] = "idle" /\ ret[t] = RetPanic

\* C9: Mark and the readers never wait: every step of a Mark in flight is
\* enabled, and a thread free to call can complete Count, Rate1, Rate5,
\* Rate15, RateMean and the first step of Mark, whoever holds m.lock or the
\* arbiter's lock.
C9_NonBlocking ==
    \A t \in Threads :
        /\ pc[t] = "mk_add" => ENABLED Mark_Add(t)
        /\ pc[t] = "mk_upd" => ENABLED Mark_Update(t)
        /\ pc[t] = "us_rate" => ENABLED updateSnapshot_Rate(t)
        /\ pc[t] = "us_mean" => ENABLED updateSnapshot_Mean(t)
        /\ pc[t] = "us_store" => ENABLED updateSnapshot_Store(t)
        /\ (pc[t] = "idle" /\ ncalls[t] < MaxCalls) =>
            \A m \in made :
                /\ ENABLED Mark(t, m, MaxMark)
                /\ ENABLED Count(t, m)
                /\ ENABLED Rate1(t, m)
                /\ ENABLED Rate5(t, m)
                /\ ENABLED Rate15(t, m)
                /\ ENABLED RateMean(t, m)

\* A Mark is in flight on a meter whose mutex another thread holds, during
\* a tick pass (the arbiter holds the read lock).
C9_Witness ==
    \E t \in Threads, u \in Threads, m \in made :
        /\ InMark(t, m)
        /\ u # t /\ mlock[m] = u
        /\ arbiter.readers = 1

----------------------------------------------------------------------------
\* Construction and the arbiter's loop.

\* NewMeter and Stop from every thread, from the state of a process that has
\* built no meter yet, against the arbiter goroutine once it is launched.
NextNew ==
    \/ \E t \in Threads : NewMeterStep(t) \/ StopStep(t)
    \/ ArbiterStep
    \/ Advance

SpecNew == Init /\ [][NextNew]_vars

\* C11: the loop is launched at most once: started goes from false to true
\* in one step only, the step that executes `go arbiter.tick()`, no other
\* step launches, started and the loop are never undone, also when the set
\* of meters is empty again.
C11_SingleLoop ==
    [][/\ launches' <= 1
       /\ arbiter'.started <=> launches' = 1
       /\ arbiter.started => arbiter'.started
       /\ launches' # launches <=> (~arbiter.started /\ arbiter'.started)
       /\ pc[Arb] # "off" => pc'[Arb] # "off"
       /\ pc'[Arb] # "off" <=> arbiter'.started]_vars

\* Every meter the bounds allow has been built, by different threads, and
\* stopped: the set is empty, the loop was launched once and is running.
C11_Witness ==
    /\ made = Meters
    /\ \A m \in Meters : stopRet[m] /\ deregs[m] = 1
    /\ arbiter.meters = {}
    /\ arbiter.started /\ launches = 1 /\ pc[Arb] # "off"

----------------------------------------------------------------------------
\* A panic inside meter.tick.

TickLabels == {"tk_drain", "tk_fold", "us_rate", "us_mean", "us_store"}

\* A run-time panic is raised while the arbiter executes meter.tick(nw).
\* Neither tickMeters nor the loop of meterArbiter.tick recovers: the
\* deferred ma.RUnlock() runs, the panic leaves the goroutine and the Go
\* run time ends the process, every goroutine with it.
tick_Panic ==
    /\ pc[Arb] \in TickLabels
    /\ arbiter' = [arbiter EXCEPT !.readers = 0]
    /\ pc' = [p \in Procs |-> "exit"]
    /\ UNCHANGED <<loc, InCall, meterVars, tickerC, envVars, histVars>>

\* Two registered meters, Stop from every thread, the tick pass, and a
\* panic at any point of a meter's tick.
NextPanic ==
    \/ \E t \in Threads : StopStep(t)
    \/ ArbiterStep
    \/ tick_Panic
    \/ Advance

SpecPanic == InitReg(Meters, TickSeconds - 1, MaxCalls - 1) /\ [][NextPanic]_vars

\* C12 as stated: whatever happens while a meter is ticked, the pass ends
\* only after every member of the set has been ticked, and the loop, once
\* launched, never ends.
C12_PanicContained ==
    [][/\ (arbiter.readers = 1 /\ arbiter'.readers = 0) =>
            \A m \in pass.members : pass.ticked[m] = 1
       /\ pc[Arb] # "off" => pc'[Arb] \notin {"off", "exit"}]_vars

----------------------------------------------------------------------------
\* The process with and without UseNilMetrics.

\* NewMeter (both branches) and the methods of NilMeter from every thread,
\* in a process that runs with UseNilMetrics set or not set.
NextNil ==
    \/ \E t \in Threads : NewMeter_Nil(t) \/ NewMeterStep(t) \/ NilMeterStep(t)
    \/ Advance

SpecNil == (\E flag \in BOOLEAN : InitWith(flag)) /\ [][NextNil]_vars

NilMeterOps ==
    {"NilMeter.Count", "NilMeter.Mark", "NilMeter.rate1", "NilMeter.rate5",
     "NilMeter.rate15", "NilMeter.rateMean", "NilMeter.RateStep",
     "NilMeter.Snapshot", "NilMeter.Stop"}

\* C13: with UseNilMetrics set, NewMeter returns a NilMeter at once, builds
\* no StandardMeter, registers nothing and launches nothing; every method of
\* a NilMeter changes nothing, Count returns 0, the five rates return 0 and
\* Snapshot returns a NilMeter.
C13_NilMeter ==
    [][\A t \in Threads :
        /\ (UseNilMetrics /\ Begins(t, "NewMeter", 0)) =>
                /\ pc'[t] = "idle" /\ ret'[t] = RetInt("nil", 0)
                /\ alloc' = alloc /\ made' = made
                /\ arbiter' = arbiter /\ pc'[Arb] = pc[Arb] /\ launches' = launches
        /\ (\E o \in NilMeterOps : Begins(t, o, 0)) =>
                /\ pc'[t] = "idle"
                /\ meterVars' = meterVars /\ arbVars' = arbVars
                /\ pc'[Arb] = pc[Arb]
        /\ Begins(t, "NilMeter.Count", 0) => ret'[t] = RetInt("count", 0)
        /\ (\E k \in 1 .. 4 : Begins(t, "NilMeter." \o RateField[k], 0)) =>
                ret'[t] = RetFloat(Num(0))
        /\ Begins(t, "NilMeter.RateStep", 0) => ret'[t] = RetFloat(Num(0))
        /\ Begins(t, "NilMeter.Snapshot", 0) => ret'[t] = RetInt("nil", 0)
        /\ (Begins(t, "NilMeter.Mark", 0) \/ Begins(t, "NilMeter.Stop", 0)) =>
                ret'[t] = RetOk]_vars

\* With the flag set: one thread got a NilMeter from NewMeter, the other
\* has made all its calls on a NilMeter, the last of them Count; no loop, no
\* registered meter.
C13_Witness ==
    /\ UseNilMetrics
    /\ \E t, u \in Threads :
        /\ op[t] = <<"NewMeter", 0>> /\ pc[t] = "idle" /\ ret[t] = RetInt("nil", 0)
        /\ op[u] = <<"NilMeter.Count", 0>> /\ ncalls[u] = MaxCalls
        /\ ret[u] = RetInt("count", 0)
    /\ arbiter = NewArbiter /\ pc[Arb] = "off" /\ alloc = 0

----------------------------------------------------------------------------
\* Refreshes against the tick.

\* The arbiter is inside a_k.Tick() of meter m: uncounted has been taken,
\* rate is not written yet.
InEWMATick(m, k) == pc[Arb] = "tk_fold" /\ loc[Arb].m = m /\ loc[Arb].k = k

\* The step is thread t reading a_k.Rate() of meter m, in updateSnapshot
\* (Mark) or in updateSnapshotOnStep (RateStep, Snapshot).
ReadsRate(t, m, k) ==
    /\ pc[t] \in {"us_rate", "os_rate"}
    /\ loc[t].m = m /\ loc[t].k = k
    /\ loc'[t] # loc[t]

\* C14 as stated: no thread reads the rate of an EWMA while the arbiter is
\* inside the Tick of that same EWMA.
C14_RateNeverDuringTick ==
    [][\A t \in Threads, m \in Meters, k \in EWMAs :
        ReadsRate(t, m, k) => ~InEWMATick(m, k)]_vars

----------------------------------------------------------------------------
\* The tick pass.

\* C15: a pass ticks the meters that are in the set when it takes the read
\* lock, each exactly once, and the set does not change from the RLock to
\* the RUnlock of the pass.
C15_TickPass ==
    [][/\ (arbiter.readers = 0 /\ arbiter'.readers = 1) =>
            pass'.members = arbiter.meters
       /\ arbiter.readers = 1 =>
            /\ arbiter'.meters = arbiter.meters
            /\ arbiter.meters = pass.members
            /\ \A m \in Meters : pass'.ticked[m] <= 1
       /\ (arbiter.readers = 1 /\ arbiter'.readers = 0) =>
            \A m \in Meters :
                pass.ticked[m] = IF m \in pass.members THEN 1 ELSE 0]_vars

\* A pass over two meters has ticked both and is about to release the read
\* lock, while a thread waits for the write lock in NewMeter or Stop.
C15_Witness ==
    /\ pc[Arb] = "ar_next" /\ loc[Arb].todo = {}
    /\ pass.members = Meters
    /\ \A m \in Meters : pass.ticked[m] = 1
    /\ \E t \in Threads : pc[t] \in {"nm_lock", "st_alock"}

----------------------------------------------------------------------------
\* The step rate.

\* Mark(MaxMark), RateStep and Snapshot from every thread, one call each, on
\* a meter registered a second ago.
NextStepRate ==
    \/ \E t \in Threads :
        MarkMaxStep(t) \/ RateStepStep(t) \/ SnapshotStep(t) \/ OnStepStep(t)
    \/ Advance

SpecStepRate ==
    InitRegAt({1}, TickSeconds - 2, TickSeconds - 1, MaxCalls - 1)
        /\ [][NextStepRate]_vars

\* C16 as stated: whenever no refresh is in progress on a meter (its mutex
\* is free), the deltas computed by the refreshes so far add up to
\* _lastCount: every event counted in _lastCount was in exactly one delta.
C16_DeltasSumToLastCount ==
    \A m \in made : mlock[m] = None => sumDelta[m] = snap[m].lastCount

\* _lastCount, _lastTime and rateStep of a snapshot record.
StepFields(s) == <<s.lastCount, s.lastTime, s.rateStep>>

OnStepLabels ==
    {"os_now", "os_rate", "os_mean", "os_smean", "os_step", "os_store", "os_last"}

\* C17: a step changes _lastCount, _lastTime or rateStep of a meter only if
\* it is a step of updateSnapshotOnStep run by a RateStep or Snapshot call
\* that holds the meter's mutex; no two threads are inside
\* updateSnapshotOnStep of the same meter.
C17_StepFieldsUnderMutex ==
    [][\A m \in Meters :
        /\ StepFields(snap'[m]) # StepFields(snap[m]) =>
                \E t \in Threads :
                    /\ mlock[m] = t /\ loc[t].m = m
                    /\ loc[t].caller \in {"RateStep", "Snapshot"}
                    /\ pc[t] \in {"os_step", "os_last"} /\ pc'[t] # pc[t]
        /\ \A t, u \in Threads :
                (/\ pc'[t] \in OnStepLabels /\ loc'[t].m = m
                 /\ pc'[u] \in OnStepLabels /\ loc'[u].m = m) => t = u]_vars

\* A RateStep has set the three fields of a meter that has also been
\* marked and ticked.
C17_Witness ==
    \E m \in made, t \in Threads :
        /\ op[t] = <<"RateStep", m>> /\ pc[t] = "idle"
        /\ snap[m].lastCount = MaxMark /\ snap[m].lastTime = TickSeconds
        /\ snap[m].rateStep # 0
        /\ ticks[m] >= 1 /\ pc[Arb] = "ar_wait"

----------------------------------------------------------------------------
\* The mean rate.

\* No call on m is in flight and the arbiter is not ticking m.
Quiescent(m) ==
    /\ \A t \in Threads : pc[t] # "idle" => loc[t].m # m
    /\ pc[Arb] \in TickLabels => loc[Arb].m # m

\* C18 as stated: whenever no operation is in flight on a meter whose mean
\* has been refreshed, the published rateMean is count / t, count being what
\* Count() returns now and t the elapsed time read by the latest refresh.
C18_MeanIsCountOverTime ==
    \A m \in made :
        (Quiescent(m) /\ lastElapsed[m] # None) =>
            snap[m].rateMean = Float64bits(FloatDiv(snap[m].count, lastElapsed[m]))

----------------------------------------------------------------------------
\* Progress.

\* The steps of thread t that wait for a lock.
LockStep(t) ==
    \/ NewMeter_Lock(t) \/ Stop_ArbLock(t)
    \/ Stop_Lock(t) \/ RateStep_Lock(t) \/ Snapshot_Lock(t)

\* The steps of thread t inside a call that wait for nothing.
RunStep(t) ==
    \/ NewMeter_Register(t)
    \/ Stop_Critical(t) \/ Stop_Delete(t)
    \/ OnStepStep(t)
    \/ RateStep_Return(t)
    \/ Snapshot_Last(t) \/ Snapshot_Copy(t) \/ Snapshot_Return(t)

\* NewMeter, Stop, RateStep and Snapshot from every thread, one call each, on
\* one registered meter and the meters they build, against the arbiter; the
\* ticker fires for ever.
NextLive ==
    \/ \E t \in Threads :
        \/ NewMeterStep(t) \/ StopStep(t) \/ RateStepStep(t) \/ SnapshotStep(t)
        \/ OnStepStep(t)
    \/ ArbiterStep
    \/ Advance
    \/ Ticker_Fire

\* The Go scheduler runs every runnable goroutine (weak fairness of each
\* goroutine's next step); sync.Mutex and sync.RWMutex hand the lock to a
\* waiter that keeps waiting (starvation mode; a blocked Lock excludes new
\* readers), which is strong fairness of the acquiring steps; time passes
\* and the ticker fires.
Fairness ==
    /\ WF_vars(ArbiterStep)
    /\ WF_vars(Advance)
    /\ WF_vars(Ticker_Fire)
    /\ \A t \in Threads : WF_vars(RunStep(t)) /\ SF_vars(LockStep(t))

SpecLive ==
    InitReg({1}, TickSeconds - 1, MaxCalls - 1) /\ [][NextLive]_vars /\ Fairness

\* The arbiter is entering m.tick(nw).
TickBegins(m) == pc[Arb] = "tk_drain" /\ loc[Arb].m = m /\ loc[Arb].k = 1

\* C19: a meter that NewMeter has returned and that is never stopped is in
\* every pass that starts, and is ticked again and again for ever, whatever
\* is built or stopped meanwhile.
C19_TickedForever ==
    /\ [][(arbiter.readers = 0 /\ arbiter'.readers = 1) =>
            \A m \in made : stopped[m] = 0 => m \in pass'.members]_vars
    /\ \A m \in Meters : []<>(m \notin made \/ stopped[m] = 1 \/ TickBegins(m))

\* The first meter, never stopped, is being ticked for at least the third
\* time while a second meter has been built and stopped.
C19_Witness ==
    /\ stopped[1] = 0 /\ TickBegins(1) /\ ticks[1] = MaxTicks
    /\ made = Meters
    /\ \E m \in Meters \ {1} : stopRet[m] /\ m \notin arbiter.meters

\* C20: a thread waiting for the arbiter's lock holds no meter's mutex, a
\* thread waiting for a meter's mutex does not hold the arbiter's lock, and
\* every call in flight and every tick pass that has begun comes to its
\* end: every thread is between calls, and the arbiter between passes,
\* again and again.
C20_DeadlockFree ==
    /\ [](\A t \in Threads :
            /\ pc[t] \in {"nm_lock", "st_alock"} => \A m \in Meters : mlock[m] # t
            /\ pc[t] \in {"st_lock", "rs_lock", "sn_lock"} => arbiter.writer # t)
    /\ \A t \in Threads : []<>(pc[t] = "idle")
    /\ []<>(pc[Arb] = "ar_wait")

\* A Stop waits for the arbiter's write lock during a tick pass while the
\* other thread holds the mutex of the meter being stopped.
C20_Witness ==
    \E t, u \in Threads :
        /\ pc[t] = "st_alock" /\ arbiter.readers = 1
        /\ u # t /\ mlock[loc[t].m] = u

====
